---- MODULE Spec2Model ----
(***************************************************************************)
(* Model of scripts/consolidacion.py: main() from the point where the      *)
(* cleaned ledger df_consolidado is in memory (line 103) to the export of  *)
(* the gold layer (line 343).                                              *)
(*                                                                         *)
(* Dates are records [y, m, d]; NaT is the missing date that               *)
(* pd.to_datetime(errors='coerce') produces.  Invoice dates carry no time  *)
(* of day; the time of day of datetime.now() never changes a comparison    *)
(* the code makes (max() against midnight timestamps, then replace(day=1)  *)
(* and year/month equality), so now is modelled as a date.                 *)
(* Concept names are the English names of the Spanish strings in the code. *)
(***************************************************************************)
EXTENDS Integers, Sequences, FiniteSets, TLC

VARIABLES pc, df_consolidado, now, date_range, clients, idx, gold_rows,
          accs, df_gold, sink, log_error

vars == <<pc, df_consolidado, now, date_range, clients, idx, gold_rows,
          accs, df_gold, sink, log_error>>

\* ---------------------------------------------------------------- bounds
MaxInvoices == 2

\* ------------------------------------------------------------- the dates
NaT == [y |-> 0, m |-> 0, d |-> 0]

Date(y, m, d) == [y |-> y, m |-> m, d |-> d]

IsLeap(y) == (y % 4 = 0) /\ ((y % 100 # 0) \/ (y % 400 = 0))

DaysInMonth(y, m) ==
    IF m = 2 THEN (IF IsLeap(y) THEN 29 ELSE 28)
    ELSE IF m \in {4, 6, 9, 11} THEN 30 ELSE 31

RECURSIVE DaysBeforeMonth(_, _)
DaysBeforeMonth(y, m) ==
    IF m = 1 THEN 0 ELSE DaysBeforeMonth(y, m - 1) + DaysInMonth(y, m - 1)

DaysBeforeYear(y) ==
    (y - 1) * 365 + ((y - 1) \div 4) - ((y - 1) \div 100) + ((y - 1) \div 400)

\* The proleptic Gregorian ordinal: (a - b).days = Ordinal(a) - Ordinal(b).
Ordinal(t) == DaysBeforeYear(t.y) + DaysBeforeMonth(t.y, t.m) + t.d

isna(t) == t = NaT

notna(t) == t # NaT

\* Timestamp comparison: any comparison with NaT is False.
DateLT(a, b) ==
    /\ notna(a) /\ notna(b)
    /\ \/ a.y < b.y
       \/ a.y = b.y /\ a.m < b.m
       \/ a.y = b.y /\ a.m = b.m /\ a.d < b.d

DateLE(a, b) == notna(a) /\ notna(b) /\ (a = b \/ DateLT(a, b))

DateGT(a, b) == DateLT(b, a)

\* t.replace(day=1)
ReplaceDay1(t) == [t EXCEPT !.d = 1]

\* t + pd.DateOffset(months=1), t - pd.DateOffset(months=1); the day is
\* clipped to the length of the target month.
ClipDay(y, m, d) == IF d > DaysInMonth(y, m) THEN DaysInMonth(y, m) ELSE d

PlusMonth(t) ==
    LET y == IF t.m = 12 THEN t.y + 1 ELSE t.y
        m == IF t.m = 12 THEN 1 ELSE t.m + 1
    IN  Date(y, m, ClipDay(y, m, t.d))

MinusMonth(t) ==
    LET y == IF t.m = 1 THEN t.y - 1 ELSE t.y
        m == IF t.m = 1 THEN 12 ELSE t.m - 1
    IN  Date(y, m, ClipDay(y, m, t.d))

\* Series.min() and Series.max() skip NaT and give NaT for an all-NaT column.
RECURSIVE ColumnMin(_, _, _)
ColumnMin(df, i, best) ==
    IF i > Len(df) THEN best
    ELSE ColumnMin(df, i + 1,
            IF notna(df[i].Fecha) /\ (isna(best) \/ DateLT(df[i].Fecha, best))
            THEN df[i].Fecha ELSE best)

RECURSIVE ColumnMax(_, _, _)
ColumnMax(df, i, best) ==
    IF i > Len(df) THEN best
    ELSE ColumnMax(df, i + 1,
            IF notna(df[i].Fecha) /\ (isna(best) \/ DateGT(df[i].Fecha, best))
            THEN df[i].Fecha ELSE best)

\* A variant that ends the time axis at the last invoice date.
MaxDate_DataOnly(max_data_date, n) == max_data_date

\* max(max_data_date, now)
MaxDate(max_data_date, n) == IF DateGT(n, max_data_date) THEN n ELSE max_data_date

\* pd.date_range(start, end, freq='MS') from a month start
RECURSIVE MonthStarts(_, _)
MonthStarts(cur, end) ==
    IF DateLE(cur, end) THEN <<cur>> \o MonthStarts(PlusMonth(cur), end)
    ELSE <<>>

\* Series.unique(): the values in order of first appearance
RECURSIVE Unique(_, _, _)
Unique(df, i, seen) ==
    IF i > Len(df) THEN seen
    ELSE Unique(df, i + 1,
            IF \E k \in 1..Len(seen) : seen[k] = df[i].Cliente
            THEN seen ELSE Append(seen, df[i].Cliente))

\* ------------------------------------------------------------ the inputs
Clients == {"Acme", "Bolt"}

PaymentDates == {NaT, Date(2024, 5, 1), Date(2024, 5, 10)}

Totals == {-100, 100}

NowDates == {Date(2024, 4, 15), Date(2024, 5, 20), Date(2025, 1, 5)}

\* The invoices a ledger row is drawn from: every payment state and sign of
\* Acme's invoices of 1 and 10 January 2024, Bolt's invoices of 10 January,
\* an undated invoice, and one dated 3 June 2024 (after two of the three
\* values of now).
InvoiceInputs ==
    [Cliente : {"Acme"}, Fecha : {Date(2024, 1, 1), Date(2024, 1, 10)},
     Fecha_de_cobro : PaymentDates, Total : Totals]
    \cup [Cliente : {"Bolt"}, Fecha : {Date(2024, 1, 10)},
          Fecha_de_cobro : {NaT, Date(2024, 5, 10)}, Total : {100}]
    \cup {[Cliente |-> "Acme", Fecha |-> NaT, Fecha_de_cobro |-> NaT, Total |-> 100],
          [Cliente |-> "Bolt", Fecha |-> Date(2024, 6, 3), Fecha_de_cobro |-> NaT,
           Total |-> 100]}

\* The invoice number Num of a ledger row is its position in the ledger.
MakeLedger(f, n) ==
    [i \in 1..n |->
        [Cliente |-> f[i].Cliente, Fecha |-> f[i].Fecha,
         Fecha_de_cobro |-> f[i].Fecha_de_cobro, Total |-> f[i].Total,
         Num |-> i]]

\* ------------------------------------------------ the aggregation engine
\* months_overdue = days_overdue / 30.44, compared with a whole number of
\* months k: days / 30.44 < k  iff  days * 100 < k * 3044.
AvgMonthDaysX100 == 3044

MonthsLT(days, k) == days * 100 < k * AvgMonthDaysX100

MonthsGE(days, k) == ~MonthsLT(days, k)

\* is_current_month
IsCurrentMonth(snapshot_date, n) ==
    (snapshot_date.y = n.y) /\ (snapshot_date.m = n.m)

\* A variant that compares the month and forgets the year.
InBillingMonth_MonthOnly(invoice, snapshot_date) ==
    notna(invoice.Fecha) /\ invoice.Fecha.m = snapshot_date.m

\* df[(df.Fecha.dt.year == S.year) & (df.Fecha.dt.month == S.month)]
InBillingMonth(invoice, snapshot_date) ==
    /\ notna(invoice.Fecha)
    /\ invoice.Fecha.y = snapshot_date.y
    /\ invoice.Fecha.m = snapshot_date.m

\* df[df.Fecha <= S]
IsRelevant(invoice, snapshot_date) == DateLE(invoice.Fecha, snapshot_date)

\* A variant that takes a payment on the snapshot day as still to come.
IsUnpaid_OnOrAfter(payment_date, snapshot_date) ==
    isna(payment_date) \/ DateLE(snapshot_date, payment_date)

\* is_unpaid
IsUnpaid(payment_date, snapshot_date) ==
    isna(payment_date) \/ DateGT(payment_date, snapshot_date)

\* A variant that ages an invoice from its own day.
IsOverdue_Inclusive(days_overdue) == days_overdue >= 0

\* the guard days_overdue > 0
IsOverdue(days_overdue) == days_overdue > 0

\* A variant whose first threshold is 2 months.
Bucket_TwoMonths(days_overdue) ==
    IF MonthsLT(days_overdue, 2) THEN "lt_3"
    ELSE IF MonthsLT(days_overdue, 6) THEN "3_6"
    ELSE IF MonthsLT(days_overdue, 12) THEN "6_12"
    ELSE "gt_12"

\* the if/elif chain over months_overdue; "none" when no branch is taken
Bucket(days_overdue) ==
    IF MonthsLT(days_overdue, 3) THEN "lt_3"
    ELSE IF MonthsGE(days_overdue, 3) /\ MonthsLT(days_overdue, 6) THEN "3_6"
    ELSE IF MonthsGE(days_overdue, 6) /\ MonthsLT(days_overdue, 12) THEN "6_12"
    ELSE IF MonthsGE(days_overdue, 12) THEN "gt_12"
    ELSE "none"

\* A variant that forgets the test of the previous month.
Crossed_NoPrev(days_overdue_prev, days_overdue) == MonthsGE(days_overdue, 3)

\* (months_overdue_prev < 3) and (months_overdue >= 3)
Crossed(days_overdue_prev, days_overdue) ==
    MonthsLT(days_overdue_prev, 3) /\ MonthsGE(days_overdue, 3)

\* the guard of the post-start payment accumulators
PaymentRecorded(payment_date) == notna(payment_date)

\* A variant that emits every non-zero sum.
Positive_NonZero(x) == x # 0

\* the emission filter: if <sum> > 0
Positive(x) == x > 0

\* A variant that emits the post-start rows at every snapshot.
PaymentRowGuard_AnyMonth(is_current_month, x) == x > 0

\* the filter of the two post-start rows: if is_current_month and <sum> > 0
PaymentRowGuard(is_current_month, x) == is_current_month /\ Positive(x)

EmptyAcc ==
    [deuda_lt_3_sum |-> 0, deuda_3_6_sum |-> 0, deuda_6_12_sum |-> 0,
     deuda_gt_12_sum |-> 0, crossed_3_months_sum |-> 0,
     paid_debt_post_start_sum |-> 0, paid_alert_post_start_sum |-> 0,
     list_lt_3 |-> <<>>, list_3_6 |-> <<>>, list_6_12 |-> <<>>,
     list_gt_12 |-> <<>>, list_crossed |-> <<>>,
     list_paid_post_start |-> <<>>, list_paid_alert |-> <<>>]

\* the bucket branch taken for one invoice
AddBucket(acc, b, total, inv_num) ==
    IF b = "lt_3" THEN
        [acc EXCEPT !.deuda_lt_3_sum = @ + total, !.list_lt_3 = Append(@, inv_num)]
    ELSE IF b = "3_6" THEN
        [acc EXCEPT !.deuda_3_6_sum = @ + total, !.list_3_6 = Append(@, inv_num)]
    ELSE IF b = "6_12" THEN
        [acc EXCEPT !.deuda_6_12_sum = @ + total, !.list_6_12 = Append(@, inv_num)]
    ELSE IF b = "gt_12" THEN
        [acc EXCEPT !.deuda_gt_12_sum = @ + total, !.list_gt_12 = Append(@, inv_num)]
    ELSE acc

AddCrossed(acc, crossed, total, inv_num) ==
    IF crossed THEN
        [acc EXCEPT !.crossed_3_months_sum = @ + total,
                    !.list_crossed = Append(@, inv_num)]
    ELSE acc

AddPaid(acc, payment_date, crossed, total, inv_num) ==
    IF PaymentRecorded(payment_date) THEN
        LET a == [acc EXCEPT !.paid_debt_post_start_sum = @ + total,
                             !.list_paid_post_start = Append(@, inv_num)]
        IN  IF crossed THEN
                [a EXCEPT !.paid_alert_post_start_sum = @ + total,
                          !.list_paid_alert = Append(@, inv_num)]
            ELSE a
    ELSE acc

\* the body of "for _, invoice in client_invoices.iterrows()"
AccInvoice(acc, invoice, snapshot_date) ==
    LET payment_date == invoice.Fecha_de_cobro
        invoice_date == invoice.Fecha
        total == invoice.Total
        inv_num == invoice.Num
    IN  IF IsUnpaid(payment_date, snapshot_date) /\ notna(invoice_date) THEN
            LET days_overdue == Ordinal(snapshot_date) - Ordinal(invoice_date)
                prev_month_date == MinusMonth(snapshot_date)
                days_overdue_prev == Ordinal(prev_month_date) - Ordinal(invoice_date)
                crossed == Crossed(days_overdue_prev, days_overdue)
            IN  IF IsOverdue(days_overdue) THEN
                    AddPaid(
                        AddCrossed(
                            AddBucket(acc, Bucket(days_overdue), total, inv_num),
                            crossed, total, inv_num),
                        payment_date, crossed, total, inv_num)
                ELSE acc
        ELSE acc

\* the accumulators of one (snapshot, client) iteration
RECURSIVE Accumulate(_, _, _, _, _)
Accumulate(df, i, client, snapshot_date, acc) ==
    IF i > Len(df) THEN acc
    ELSE Accumulate(df, i + 1, client, snapshot_date,
            IF IsRelevant(df[i], snapshot_date) /\ df[i].Cliente = client
            THEN AccInvoice(acc, df[i], snapshot_date)
            ELSE acc)

\* client_billing_df: the invoices of the client dated in the snapshot month
RECURSIVE BillingDf(_, _, _, _)
BillingDf(df, i, client, snapshot_date) ==
    IF i > Len(df) THEN <<>>
    ELSE (IF InBillingMonth(df[i], snapshot_date) /\ df[i].Cliente = client
          THEN <<df[i]>> ELSE <<>>)
         \o BillingDf(df, i + 1, client, snapshot_date)

RECURSIVE SumTotal(_)
SumTotal(rows) ==
    IF rows = <<>> THEN 0 ELSE Head(rows).Total + SumTotal(Tail(rows))

Nums(rows) == [i \in 1..Len(rows) |-> rows[i].Num]

GoldRow(snapshot_date, client, concept, amount, is_current_month, list) ==
    [Fecha_Reporte |-> snapshot_date, Cliente |-> client, Concepto |-> concept,
     Monto |-> amount, Es_Mes_Actual |-> is_current_month,
     Numero_Facturas |-> Len(list), Lista_Facturas |-> list]

RowIf(cond, row) == IF cond THEN <<row>> ELSE <<>>

\* the rows one (snapshot, client) iteration appends, in the code's order,
\* from the accumulators acc its invoice loop ended with
ClientRows(df, snapshot_date, client, n, acc) ==
    LET cur == IsCurrentMonth(snapshot_date, n)
        client_billing_df == BillingDf(df, 1, client, snapshot_date)
        client_billing == SumTotal(client_billing_df)
        R(concept, amount, list) ==
            GoldRow(snapshot_date, client, concept, amount, cur, list)
    IN  RowIf(Positive(client_billing),
              R("Monthly Billing", client_billing, Nums(client_billing_df)))
        \o RowIf(Positive(acc.deuda_lt_3_sum),
              R("Debt 0-3 Months", acc.deuda_lt_3_sum, acc.list_lt_3))
        \o RowIf(Positive(acc.deuda_3_6_sum),
              R("Debt 3-6 Months", acc.deuda_3_6_sum, acc.list_3_6))
        \o RowIf(Positive(acc.deuda_6_12_sum),
              R("Debt 6-12 Months", acc.deuda_6_12_sum, acc.list_6_12))
        \o RowIf(Positive(acc.deuda_gt_12_sum),
              R("Debt > 12 Months", acc.deuda_gt_12_sum, acc.list_gt_12))
        \o RowIf(Positive(acc.crossed_3_months_sum),
              R("Alert: Crossed 3 Months", acc.crossed_3_months_sum, acc.list_crossed))
        \o RowIf(PaymentRowGuard(cur, acc.paid_debt_post_start_sum),
              R("Payments Debt Post-Start", acc.paid_debt_post_start_sum,
                acc.list_paid_post_start))
        \o RowIf(PaymentRowGuard(cur, acc.paid_alert_post_start_sum),
              R("Payments Alert Post-Start", acc.paid_alert_post_start_sum,
                acc.list_paid_alert))

\* the accumulators every client iteration of one snapshot ends with
SnapshotAccs(df, snapshot_date, cl) ==
    [k \in 1..Len(cl) |-> Accumulate(df, 1, cl[k], snapshot_date, EmptyAcc)]

\* the body of "for snapshot_date in date_range": the rows of every client
RECURSIVE SnapshotRows(_, _, _, _, _, _)
SnapshotRows(df, snapshot_date, cl, k, n, snapshot_accs) ==
    IF k > Len(cl) THEN <<>>
    ELSE ClientRows(df, snapshot_date, cl[k], n, snapshot_accs[k])
         \o SnapshotRows(df, snapshot_date, cl, k + 1, n, snapshot_accs)

\* --------------------------------------------------- the variance pass
\* The order of Python's string comparison on the names in the code.
ClientRank(c) == IF c = "Acme" THEN 1 ELSE 2

\* 'Alerta: Paso 3 Meses' < 'Deuda 0-3 Meses' < 'Deuda 3-6 Meses' <
\* 'Deuda 6-12 Meses' < 'Deuda > 12 Meses' < 'Facturacion Mensual' <
\* 'Pagos Alerta Post-Inicio' < 'Pagos Deuda Post-Inicio'
ConceptRank(c) ==
    CASE c = "Alert: Crossed 3 Months" -> 1
      [] c = "Debt 0-3 Months" -> 2
      [] c = "Debt 3-6 Months" -> 3
      [] c = "Debt 6-12 Months" -> 4
      [] c = "Debt > 12 Months" -> 5
      [] c = "Monthly Billing" -> 6
      [] c = "Payments Alert Post-Start" -> 7
      [] OTHER -> 8

\* the sort key ['Cliente', 'Concepto', 'Fecha_Reporte']
RowLT(a, b) ==
    \/ ClientRank(a.Cliente) < ClientRank(b.Cliente)
    \/ /\ a.Cliente = b.Cliente
       /\ \/ ConceptRank(a.Concepto) < ConceptRank(b.Concepto)
          \/ a.Concepto = b.Concepto /\ DateLT(a.Fecha_Reporte, b.Fecha_Reporte)

RECURSIVE InsertSorted(_, _)
InsertSorted(sorted, r) ==
    IF sorted = <<>> THEN <<r>>
    ELSE IF RowLT(r, Head(sorted)) THEN <<r>> \o sorted
    ELSE <<Head(sorted)>> \o InsertSorted(Tail(sorted), r)

\* df_gold.sort_values(by=[...])
RECURSIVE SortValues(_, _, _)
SortValues(rows, i, sorted) ==
    IF i > Len(rows) THEN sorted
    ELSE SortValues(rows, i + 1, InsertSorted(sorted, rows[i]))

\* A variant that joins each row with itself.
PrevShift_None(t) == t

\* df_prev['Fecha_Reporte'] + pd.DateOffset(months=1)
PrevShift(t) == PlusMonth(t)

\* df_prev: the key columns and Monto, the date shifted, Monto renamed
DfPrev(rows) ==
    [i \in 1..Len(rows) |->
        [Fecha_Reporte |-> PrevShift(rows[i].Fecha_Reporte),
         Cliente |-> rows[i].Cliente, Concepto |-> rows[i].Concepto,
         Monto_Anterior |-> rows[i].Monto]]

\* the merge keys on=['Fecha_Reporte', 'Cliente', 'Concepto']
KeyMatch(l, r) ==
    /\ l.Fecha_Reporte = r.Fecha_Reporte
    /\ l.Cliente = r.Cliente
    /\ l.Concepto = r.Concepto

\* Monto_Anterior of the merged rows of one left row: one per matching right
\* row, or a single NaN (the empty sequence) when none matches.
RECURSIVE Matches(_, _, _)
Matches(l, right, j) ==
    IF j > Len(right) THEN <<>>
    ELSE (IF KeyMatch(l, right[j]) THEN <<<<right[j].Monto_Anterior>>>> ELSE <<>>)
         \o Matches(l, right, j + 1)

MergedPrior(l, right) ==
    LET ms == Matches(l, right, 1) IN IF ms = <<>> THEN << <<>> >> ELSE ms

\* fillna(0)
FillNa(x) == IF x = <<>> THEN 0 ELSE x[1]

WithVariance(l, prior) ==
    [Fecha_Reporte |-> l.Fecha_Reporte, Cliente |-> l.Cliente,
     Concepto |-> l.Concepto, Monto |-> l.Monto,
     Es_Mes_Actual |-> l.Es_Mes_Actual, Numero_Facturas |-> l.Numero_Facturas,
     Lista_Facturas |-> l.Lista_Facturas,
     Variacion_Mes_Anterior |-> l.Monto - FillNa(prior)]

\* pd.merge(df_gold, df_prev, how='left'), fillna, the subtraction, the drop
RECURSIVE MergeLeft(_, _, _)
MergeLeft(left, right, i) ==
    IF i > Len(left) THEN <<>>
    ELSE LET ps == MergedPrior(left[i], right)
         IN  [k \in 1..Len(ps) |-> WithVariance(left[i], ps[k])]
             \o MergeLeft(left, right, i + 1)

VarianceOf(rows) ==
    IF rows = <<>> THEN <<>>
    ELSE LET sorted == SortValues(rows, 1, <<>>)
         IN  MergeLeft(sorted, DfPrev(sorted), 1)

\* ------------------------------------------------------------ the sink
\* df_export[col].dt.strftime('%Y-%m-%d'): the digits of year, month, day
Strftime(t) == <<t.y, t.m, t.d>>

DfExport(rows) ==
    [i \in 1..Len(rows) |-> [rows[i] EXCEPT !.Fecha_Reporte = Strftime(@)]]

\* ------------------------------------------------------- the state machine
Init ==
    /\ pc = "start"
    /\ now \in NowDates
    /\ \E n \in 0..MaxInvoices :
         \E f \in [1..n -> InvoiceInputs] : df_consolidado = MakeLedger(f, n)
    /\ date_range = <<>>
    /\ clients = <<>>
    /\ idx = 1
    /\ gold_rows = <<>>
    /\ accs = <<>>
    /\ df_gold = <<>>
    /\ sink = [cleared |-> FALSE, written |-> <<>>]
    /\ log_error = FALSE

\* A variant that clears the sheet before it looks at the dates.
AbortNoDate_ClearsSink ==
    /\ pc = "start"
    /\ isna(ColumnMin(df_consolidado, 1, NaT))
    /\ log_error' = TRUE
    /\ sink' = [sink EXCEPT !.cleared = TRUE]
    /\ pc' = "done"
    /\ UNCHANGED <<df_consolidado, now, date_range, clients, idx, gold_rows,
                   accs, df_gold>>

\* pd.isna(min_date): the error is logged and main returns
AbortNoDate ==
    /\ pc = "start"
    /\ isna(ColumnMin(df_consolidado, 1, NaT))
    /\ log_error' = TRUE
    /\ pc' = "done"
    /\ UNCHANGED <<df_consolidado, now, date_range, clients, idx, gold_rows,
                   accs, df_gold, sink>>

\* min_date .. clients: the snapshot sequence and the client list
GenerateRange ==
    /\ pc = "start"
    /\ notna(ColumnMin(df_consolidado, 1, NaT))
    /\ LET min_date == ColumnMin(df_consolidado, 1, NaT)
           max_data_date == ColumnMax(df_consolidado, 1, NaT)
           max_date == MaxDate(max_data_date, now)
           start_date == ReplaceDay1(min_date)
           current_date == ReplaceDay1(max_date)
       IN  date_range' = MonthStarts(start_date, current_date)
    /\ clients' = Unique(df_consolidado, 1, <<>>)
    /\ pc' = "loop"
    /\ UNCHANGED <<df_consolidado, now, idx, gold_rows, accs, df_gold, sink,
                   log_error>>

\* one iteration of "for snapshot_date in date_range"
SnapshotIteration ==
    /\ pc = "loop"
    /\ idx <= Len(date_range)
    /\ accs' = Append(accs, SnapshotAccs(df_consolidado, date_range[idx], clients))
    /\ gold_rows' = gold_rows
            \o SnapshotRows(df_consolidado, date_range[idx], clients, 1, now,
                            accs'[idx])
    /\ idx' = idx + 1
    /\ UNCHANGED <<pc, df_consolidado, now, date_range, clients, df_gold, sink,
                   log_error>>

\* the loop is over: df_gold with the month-over-month variance
VariancePass ==
    /\ pc = "loop"
    /\ idx > Len(date_range)
    /\ df_gold' = VarianceOf(gold_rows)
    /\ pc' = "export"
    /\ UNCHANGED <<df_consolidado, now, date_range, clients, idx, gold_rows,
                   accs, sink, log_error>>

\* df_gold is empty: nothing to export
ExportNothing ==
    /\ pc = "export"
    /\ df_gold = <<>>
    /\ pc' = "done"
    /\ UNCHANGED <<df_consolidado, now, date_range, clients, idx, gold_rows,
                   accs, df_gold, sink, log_error>>

\* the sheet is cleared (or created) and the rows are written
Export ==
    /\ pc = "export"
    /\ df_gold # <<>>
    /\ sink' = [cleared |-> TRUE, written |-> DfExport(df_gold)]
    /\ pc' = "done"
    /\ UNCHANGED <<df_consolidado, now, date_range, clients, idx, gold_rows,
                   accs, df_gold, log_error>>

\* the sink raises, before or after the sheet is cleared: the error is
\* logged and raised again
ExportFails ==
    /\ pc = "export"
    /\ df_gold # <<>>
    /\ \E cleared \in BOOLEAN : sink' = [sink EXCEPT !.cleared = cleared]
    /\ log_error' = TRUE
    /\ pc' = "failed"
    /\ UNCHANGED <<df_consolidado, now, date_range, clients, idx, gold_rows,
                   accs, df_gold>>

Next ==
    \/ AbortNoDate
    \/ GenerateRange
    \/ SnapshotIteration
    \/ VariancePass
    \/ ExportNothing
    \/ Export
    \/ ExportFails

Spec == Init /\ [][Next]_vars

\* ------------------------------------------------ vocabulary of the claims
Invoices == 1..Len(df_consolidado)

Dated == {j \in Invoices : df_consolidado[j].Fecha # NaT}

MonthIndex(t) == t.y * 12 + t.m - 1

\* the snapshots the loop has processed so far
Processed == 1..Len(accs)

LoopOver == pc \in {"export", "done", "failed"} /\ date_range # <<>>

ClientIndex(c) == CHOOSE k \in 1..Len(clients) : clients[k] = c

\* the accumulators of invoice j's client at snapshot i
AccOfInvoice(i, j) == accs[i][ClientIndex(df_consolidado[j].Cliente)]

InList(num, list) == \E k \in 1..Len(list) : list[k] = num

\* days from the invoice date of j to snapshot i
DaysAt(i, j) == Ordinal(date_range[i]) - Ordinal(df_consolidado[j].Fecha)

\* days from the invoice date of j to the month start before snapshot i
DaysBefore(i, j) ==
    LET S == date_range[i]
        py == IF S.m = 1 THEN S.y - 1 ELSE S.y
        pm == IF S.m = 1 THEN 12 ELSE S.m - 1
    IN  DaysAt(i, j) - DaysInMonth(py, pm)

UnpaidAsOf(i, j) ==
    \/ df_consolidado[j].Fecha_de_cobro = NaT
    \/ Ordinal(df_consolidado[j].Fecha_de_cobro) > Ordinal(date_range[i])

RECURSIVE SetSum(_)
SetSum(J) ==
    IF J = {} THEN 0
    ELSE LET j == CHOOSE x \in J : TRUE
         IN  df_consolidado[j].Total + SetSum(J \ {j})

ListSet(list) == {list[k] : k \in 1..Len(list)}

RowsAt(rows, t, c, concept) ==
    {r \in 1..Len(rows) :
        /\ rows[r].Fecha_Reporte = t
        /\ rows[r].Cliente = c
        /\ rows[r].Concepto = concept}

\* the number of aging buckets of any client that hold invoice j at snapshot i
BucketCount(i, j) ==
    Cardinality({<<k, b>> \in (1..Len(clients)) \X {"lt_3", "3_6", "6_12", "gt_12"} :
        LET a == accs[i][k]
            list == IF b = "lt_3" THEN a.list_lt_3
                    ELSE IF b = "3_6" THEN a.list_3_6
                    ELSE IF b = "6_12" THEN a.list_6_12
                    ELSE a.list_gt_12
        IN  InList(j, list)})

\* -------------------------------------------------------------- the claims

\* C1: whenever some invoice has a valid date, the snapshot sequence is the
\* consecutive month starts from the month of the earliest valid invoice date
\* to the month of max(latest invoice date, now): one per month, increasing,
\* and its last element is not before the current month.
C1_SnapshotSequence ==
    (pc # "start" /\ Dated # {}) =>
        LET lo == CHOOSE a \in {MonthIndex(df_consolidado[j].Fecha) : j \in Dated} :
                     \A j \in Dated : a <= MonthIndex(df_consolidado[j].Fecha)
            hiData == CHOOSE a \in {MonthIndex(df_consolidado[j].Fecha) : j \in Dated} :
                     \A j \in Dated : a >= MonthIndex(df_consolidado[j].Fecha)
            hi == IF MonthIndex(now) > hiData THEN MonthIndex(now) ELSE hiData
        IN  /\ Len(date_range) = hi - lo + 1
            /\ \A i \in 1..Len(date_range) :
                 /\ date_range[i].d = 1
                 /\ MonthIndex(date_range[i]) = lo + i - 1
            /\ MonthIndex(date_range[Len(date_range)]) >= MonthIndex(now)

\* C1 witness: a run whose sequence ends at the current month although every
\* invoice is dated months earlier.
C1_Witness ==
    /\ pc = "done"
    /\ Len(date_range) >= 4
    /\ MonthIndex(date_range[Len(date_range)]) = MonthIndex(now)
    /\ \A j \in Dated : MonthIndex(df_consolidado[j].Fecha) < MonthIndex(now)

\* C2 as stated: at every snapshot an invoice is in at most one aging bucket,
\* and every invoice unpaid as of S with invoice_date <= S (the day of S
\* included) is in exactly one.
C2_Original ==
    LoopOver =>
        \A i \in Processed : \A j \in Invoices :
            /\ BucketCount(i, j) <= 1
            /\ (/\ j \in Dated
                /\ UnpaidAsOf(i, j)
                /\ DaysAt(i, j) >= 0) => BucketCount(i, j) = 1

\* C2 amended: at every snapshot an invoice is in at most one aging bucket;
\* an invoice unpaid as of S and dated strictly before S is in exactly one,
\* and an invoice dated on S or later, or paid as of S, is in none.
C2_Buckets ==
    LoopOver =>
        \A i \in Processed : \A j \in Invoices :
            LET n == BucketCount(i, j)
            IN  /\ n <= 1
                /\ n = 1 <=> (j \in Dated /\ UnpaidAsOf(i, j) /\ DaysAt(i, j) > 0)

\* C2 witness: the same snapshot holds an invoice in the > 12 months bucket,
\* and the run has also seen an invoice dated on the snapshot day.
C2_Witness ==
    /\ \E i \in Processed : \E j \in Invoices : InList(j, AccOfInvoice(i, j).list_gt_12)
    /\ \E i \in Processed : \E j \in Dated : UnpaidAsOf(i, j) /\ DaysAt(i, j) = 0

\* C3: an invoice is in the crossing alert of snapshot S exactly when it is
\* unpaid as of S, under 3 months overdue one month before S and 3 or more
\* at S; it is so at no more than one snapshot of the run; an invoice dated
\* 2024-01-10 is flagged only at the 2024-05-01 snapshot.
C3_CrossingOnce ==
    LoopOver =>
        \A j \in Invoices :
            /\ \A i \in Processed :
                 InList(j, AccOfInvoice(i, j).list_crossed) <=>
                    /\ j \in Dated
                    /\ UnpaidAsOf(i, j)
                    /\ DaysBefore(i, j) * 100 < 3 * 3044
                    /\ DaysAt(i, j) * 100 >= 3 * 3044
            /\ Cardinality({i \in Processed :
                    InList(j, AccOfInvoice(i, j).list_crossed)}) <= 1
            /\ \A i \in Processed : \A k \in 1..Len(clients) :
                 InList(j, accs[i][k].list_crossed) =>
                    clients[k] = df_consolidado[j].Cliente
            /\ df_consolidado[j].Fecha = Date(2024, 1, 10) =>
                 \A i \in Processed :
                    InList(j, AccOfInvoice(i, j).list_crossed) =>
                        date_range[i] = Date(2024, 5, 1)

\* C3 witness: an invoice was flagged at one snapshot and the run went on for
\* at least three more snapshots.
C3_Witness ==
    \E j \in Invoices : \E i \in Processed :
        /\ InList(j, AccOfInvoice(i, j).list_crossed)
        /\ Len(accs) >= i + 3

\* C4: at every processed snapshot M and for every client C, the Monthly
\* Billing row is the sum of the totals of C's invoices dated in the year and
\* month of M, with their count; it is absent exactly when the sum is <= 0.
C4_MonthlyBilling ==
    LoopOver =>
        \A i \in Processed : \A c \in Clients :
            LET J == {j \in Dated :
                        /\ df_consolidado[j].Cliente = c
                        /\ MonthIndex(df_consolidado[j].Fecha) = MonthIndex(date_range[i])}
                R == RowsAt(gold_rows, date_range[i], c, "Monthly Billing")
            IN  IF SetSum(J) > 0
                THEN /\ Cardinality(R) = 1
                     /\ \A r \in R :
                          /\ gold_rows[r].Monto = SetSum(J)
                          /\ gold_rows[r].Numero_Facturas = Cardinality(J)
                          /\ ListSet(gold_rows[r].Lista_Facturas) = J
                ELSE R = {}

\* C4 witness: a billing row that sums the totals of two invoices of the
\* same client and month.
C4_Witness ==
    \E r \in 1..Len(gold_rows) :
        /\ gold_rows[r].Concepto = "Monthly Billing"
        /\ gold_rows[r].Numero_Facturas = 2
        /\ gold_rows[r].Monto = 200

\* the amounts of the emitted rows of (client, concept) one calendar month
\* before date t
PriorAmounts(t, c, concept) ==
    {gold_rows[r].Monto : r \in
        {q \in 1..Len(gold_rows) :
            /\ gold_rows[q].Cliente = c
            /\ gold_rows[q].Concepto = concept
            /\ MonthIndex(gold_rows[q].Fecha_Reporte) = MonthIndex(t) - 1}}

\* C5: after the variance pass every output row's variance is its amount
\* minus the amount of the emitted row of the same (client, concept) one
\* calendar month earlier, 0 when there is none; every emitted row is in the
\* output exactly once, with its amount, and the output holds nothing else.
C5_Variance ==
    LoopOver =>
        /\ Len(df_gold) = Len(gold_rows)
        /\ \A g \in 1..Len(gold_rows) :
             Cardinality({r \in 1..Len(df_gold) :
                /\ df_gold[r].Fecha_Reporte = gold_rows[g].Fecha_Reporte
                /\ df_gold[r].Cliente = gold_rows[g].Cliente
                /\ df_gold[r].Concepto = gold_rows[g].Concepto
                /\ df_gold[r].Monto = gold_rows[g].Monto
                /\ df_gold[r].Lista_Facturas = gold_rows[g].Lista_Facturas}) = 1
        /\ \A r \in 1..Len(df_gold) :
             LET P == PriorAmounts(df_gold[r].Fecha_Reporte, df_gold[r].Cliente,
                                   df_gold[r].Concepto)
             IN  /\ Cardinality(P) <= 1
                 /\ P = {} => df_gold[r].Variacion_Mes_Anterior = df_gold[r].Monto
                 /\ \A a \in P :
                      df_gold[r].Variacion_Mes_Anterior = df_gold[r].Monto - a

\* C5 witness: the output holds a row with no prior-month counterpart, a row
\* equal to its counterpart (variance 0) and a row that differs from it.
C5_Witness ==
    /\ LoopOver
    /\ \E r \in 1..Len(df_gold) :
         /\ PriorAmounts(df_gold[r].Fecha_Reporte, df_gold[r].Cliente,
                         df_gold[r].Concepto) = {}
         /\ df_gold[r].Variacion_Mes_Anterior = df_gold[r].Monto
    /\ \E r \in 1..Len(df_gold) :
         /\ PriorAmounts(df_gold[r].Fecha_Reporte, df_gold[r].Cliente,
                         df_gold[r].Concepto) # {}
         /\ df_gold[r].Variacion_Mes_Anterior = 0
    /\ \E r \in 1..Len(df_gold) :
         /\ df_gold[r].Variacion_Mes_Anterior # 0
         /\ df_gold[r].Variacion_Mes_Anterior # df_gold[r].Monto

\* the processed snapshots of the current month
CurrentSnapshots == {i \in Processed : MonthIndex(date_range[i]) = MonthIndex(now)}

\* C6 as stated: at the current-month snapshot S every invoice dated before S
\* with a recorded payment date is counted in Payments Debt Post-Start,
\* whether the payment is before or after S; so is one paid on 2024-05-01 at
\* the 2024-05-01 snapshot.
C6_Original ==
    LoopOver =>
        \A i \in CurrentSnapshots : \A j \in Dated :
            (/\ DaysAt(i, j) > 0
             /\ df_consolidado[j].Fecha_de_cobro # NaT)
                => InList(j, AccOfInvoice(i, j).list_paid_post_start)

\* C6 amended: at the current-month snapshot S an invoice dated before S is
\* counted in Payments Debt Post-Start exactly when its payment date is
\* recorded and strictly after S (an invoice paid on 2024-05-01 is not counted
\* at the 2024-05-01 snapshot), and in Payments Alert Post-Start exactly when
\* it also crossed 3 months at S; an emitted post-start row carries the sum
\* of the totals of the invoices counted.
C6_PaidAfterSnapshot ==
    LoopOver =>
        \A i \in CurrentSnapshots :
            /\ \A j \in Invoices :
                 LET a == AccOfInvoice(i, j)
                     paidAfter ==
                        /\ j \in Dated
                        /\ DaysAt(i, j) > 0
                        /\ df_consolidado[j].Fecha_de_cobro # NaT
                        /\ Ordinal(df_consolidado[j].Fecha_de_cobro) > Ordinal(date_range[i])
                 IN  /\ InList(j, a.list_paid_post_start) <=> paidAfter
                     /\ InList(j, a.list_paid_alert) <=>
                            (paidAfter /\ InList(j, a.list_crossed))
                     /\ (/\ date_range[i] = Date(2024, 5, 1)
                         /\ df_consolidado[j].Fecha_de_cobro = Date(2024, 5, 1))
                            => ~InList(j, a.list_paid_post_start)
            /\ \A k \in 1..Len(clients) :
                 /\ \A r \in RowsAt(gold_rows, date_range[i], clients[k],
                                    "Payments Debt Post-Start") :
                      /\ gold_rows[r].Monto = SetSum(ListSet(accs[i][k].list_paid_post_start))
                      /\ gold_rows[r].Lista_Facturas = accs[i][k].list_paid_post_start
                 /\ \A r \in RowsAt(gold_rows, date_range[i], clients[k],
                                    "Payments Alert Post-Start") :
                      /\ gold_rows[r].Monto = SetSum(ListSet(accs[i][k].list_paid_alert))
                      /\ gold_rows[r].Lista_Facturas = accs[i][k].list_paid_alert

\* C6 witness: the May 2024 snapshot is the current month; one invoice paid
\* after it is counted in both post-start concepts, and the ledger also holds
\* an overdue invoice paid on 2024-05-01.
C6_Witness ==
    \E i \in CurrentSnapshots :
        /\ date_range[i] = Date(2024, 5, 1)
        /\ \E j \in Invoices : InList(j, AccOfInvoice(i, j).list_paid_alert)
        /\ \E r \in 1..Len(gold_rows) :
             /\ gold_rows[r].Concepto = "Payments Debt Post-Start"
             /\ gold_rows[r].Monto = 100
        /\ \E j \in Dated :
             /\ df_consolidado[j].Fecha_de_cobro = Date(2024, 5, 1)
             /\ DaysAt(i, j) > 0

\* the scenario: one unpaid invoice of Acme, 2024-01-10, total 100; now is
\* 2024-04-15
AcmeScenario ==
    /\ df_consolidado =
         <<[Cliente |-> "Acme", Fecha |-> Date(2024, 1, 10),
            Fecha_de_cobro |-> NaT, Total |-> 100, Num |-> 1]>>
    /\ now = Date(2024, 4, 15)
    /\ pc = "done"

JanToApr2024 ==
    <<Date(2024, 1, 1), Date(2024, 2, 1), Date(2024, 3, 1), Date(2024, 4, 1)>>

\* the snapshots with a row of the concept for Acme, amount 100
AcmeRowDates(concept) ==
    {gold_rows[r].Fecha_Reporte : r \in
        {q \in 1..Len(gold_rows) :
            /\ gold_rows[q].Cliente = "Acme"
            /\ gold_rows[q].Concepto = concept
            /\ gold_rows[q].Monto = 100}}

AnyRowOf(concept) ==
    \E r \in 1..Len(gold_rows) : gold_rows[r].Concepto = concept

\* C7 as stated: in the scenario the snapshots are January to April 2024, a
\* Debt 0-3 Months row of amount 100 is emitted at the January, February and
\* March snapshots, and no crossing alert row at any snapshot.
C7_Original ==
    AcmeScenario =>
        /\ date_range = JanToApr2024
        /\ {Date(2024, 1, 1), Date(2024, 2, 1), Date(2024, 3, 1)}
              \subseteq AcmeRowDates("Debt 0-3 Months")
        /\ ~AnyRowOf("Alert: Crossed 3 Months")

\* C7 amended: in the scenario the snapshots are January to April 2024, a
\* Debt 0-3 Months row of amount 100 is emitted at the February, March and
\* April snapshots and none at the January snapshot (which precedes the
\* invoice date), the only rows are those three, and no crossing alert row is
\* emitted at any snapshot.
C7_Scenario ==
    AcmeScenario =>
        /\ date_range = JanToApr2024
        /\ AcmeRowDates("Debt 0-3 Months") =
              {Date(2024, 2, 1), Date(2024, 3, 1), Date(2024, 4, 1)}
        /\ \A r \in 1..Len(gold_rows) :
              \/ gold_rows[r].Concepto = "Debt 0-3 Months"
              \/ /\ gold_rows[r].Concepto = "Monthly Billing"
                 /\ gold_rows[r].Fecha_Reporte = Date(2024, 1, 1)
        /\ ~AnyRowOf("Alert: Crossed 3 Months")
        /\ \A i \in Processed : accs[i][1].list_crossed = <<>>

\* C7 witness: the scenario has run to its end and exported its rows.
C7_Witness == AcmeScenario /\ sink.written # <<>>

\* C8: when no invoice has a valid date the run logs the error and stops
\* before any snapshot or row is generated; the sink is neither cleared nor
\* written.
C8_NoValidDate ==
    (Dated = {} /\ pc # "start") =>
        /\ pc = "done"
        /\ log_error
        /\ date_range = <<>>
        /\ gold_rows = <<>>
        /\ accs = <<>>
        /\ df_gold = <<>>
        /\ sink = [cleared |-> FALSE, written |-> <<>>]

\* C8 witness: a ledger of undated invoices only, after the run stopped.
C8_Witness == Dated = {} /\ Len(df_consolidado) = MaxInvoices /\ pc = "done"

\* the sum and the list of a concept in accumulators a
ConceptAcc(a, concept) ==
    CASE concept = "Debt 0-3 Months" -> <<a.deuda_lt_3_sum, a.list_lt_3>>
      [] concept = "Debt 3-6 Months" -> <<a.deuda_3_6_sum, a.list_3_6>>
      [] concept = "Debt 6-12 Months" -> <<a.deuda_6_12_sum, a.list_6_12>>
      [] concept = "Debt > 12 Months" -> <<a.deuda_gt_12_sum, a.list_gt_12>>
      [] concept = "Alert: Crossed 3 Months" -> <<a.crossed_3_months_sum, a.list_crossed>>
      [] concept = "Payments Debt Post-Start" ->
            <<a.paid_debt_post_start_sum, a.list_paid_post_start>>
      [] OTHER -> <<a.paid_alert_post_start_sum, a.list_paid_alert>>

AccConcepts ==
    {"Debt 0-3 Months", "Debt 3-6 Months", "Debt 6-12 Months", "Debt > 12 Months",
     "Alert: Crossed 3 Months", "Payments Debt Post-Start",
     "Payments Alert Post-Start"}

\* C9: every emitted row, before and after the variance pass, has an amount
\* above 0 and counts at least one invoice; an accumulator whose sum is zero
\* or negative gives no row.
C9_PositiveRows ==
    LoopOver =>
        /\ \A r \in 1..Len(gold_rows) :
             gold_rows[r].Monto > 0 /\ gold_rows[r].Numero_Facturas >= 1
        /\ \A r \in 1..Len(df_gold) :
             df_gold[r].Monto > 0 /\ df_gold[r].Numero_Facturas >= 1
        /\ \A r \in 1..Len(gold_rows) :
             gold_rows[r].Concepto \in AccConcepts =>
                LET i == CHOOSE x \in Processed : date_range[x] = gold_rows[r].Fecha_Reporte
                    k == ClientIndex(gold_rows[r].Cliente)
                IN  ConceptAcc(accs[i][k], gold_rows[r].Concepto)[1] > 0

\* C9 witness: an accumulator made negative by a negative total, and one that
\* two invoices bring to exactly zero, in a run that emitted rows.
C9_Witness ==
    /\ gold_rows # <<>>
    /\ \E i \in Processed : \E k \in 1..Len(clients) : \E concept \in AccConcepts :
         /\ ConceptAcc(accs[i][k], concept)[1] < 0
    /\ \E i \in Processed : \E k \in 1..Len(clients) : \E concept \in AccConcepts :
         /\ ConceptAcc(accs[i][k], concept)[1] = 0
         /\ Len(ConceptAcc(accs[i][k], concept)[2]) = 2

PaymentConcepts == {"Payments Debt Post-Start", "Payments Alert Post-Start"}

\* C10: a post-start payment row is only at the snapshot of the year and month
\* of now, so the rows of that kind of a client are all at one snapshot, also
\* when the sequence runs past the current month; every invoice counted in
\* Payments Alert Post-Start is counted in Payments Debt Post-Start and in
\* the crossing alert of that snapshot.
C10_PaymentRows ==
    LoopOver =>
        /\ \A r \in 1..Len(gold_rows) :
             gold_rows[r].Concepto \in PaymentConcepts =>
                /\ gold_rows[r].Fecha_Reporte.y = now.y
                /\ gold_rows[r].Fecha_Reporte.m = now.m
                /\ gold_rows[r].Es_Mes_Actual
        /\ LET P == {r \in 1..Len(gold_rows) : gold_rows[r].Concepto \in PaymentConcepts}
           IN  \A r1, r2 \in P :
                  gold_rows[r1].Cliente = gold_rows[r2].Cliente
                     => gold_rows[r1].Fecha_Reporte = gold_rows[r2].Fecha_Reporte
        /\ \A i \in Processed : \A k \in 1..Len(clients) :
             \A n \in ListSet(accs[i][k].list_paid_alert) :
                /\ InList(n, accs[i][k].list_paid_post_start)
                /\ InList(n, accs[i][k].list_crossed)

\* C10 witness: a Payments Alert Post-Start row in a finished run whose
\* sequence runs past the current month.
C10_Witness ==
    /\ LoopOver
    /\ MonthIndex(date_range[Len(date_range)]) > MonthIndex(now)
    /\ AnyRowOf("Payments Alert Post-Start")

====
